---------------------------- MODULE Spec2Model ----------------------------
(***************************************************************************)
(* Model of eosim/gui/visualize/vismapframe.py: the map-visualisation form *)
(* (VisMapFrame), its attribute record (MapVisPlotAttibutes) and the       *)
(* variable catalogue (PlotMapVars).                                       *)
(*                                                                         *)
(* Conventions.  An attribute that may be None is a sequence of at most    *)
(* one element: <<>> is None and <<x>> is the value x.  A text-entry value *)
(* is the sequence of its colon-separated fields (what str.split(":")      *)
(* returns); a field is <<n>> for text that float() reads as the number n  *)
(* and <<>> for the empty text, which float() rejects.  Real-valued        *)
(* quantities are integers; np.sqrt is exact on the perfect squares the    *)
(* inputs are drawn from.                                                  *)
(* A handler that ends in an unhandled exception keeps every assignment    *)
(* made before the raising statement and makes none after it.              *)
(***************************************************************************)
EXTENDS Integers, Sequences, FiniteSets, TLC

(***************************************************************************)
(* Bounds of the model.                                                    *)
(***************************************************************************)
MaxRow == 4          \* the propagation files hold time indices 0..MaxRow
MaxAdds == 2         \* Add presses over the life of the form
MaxPlots == 2        \* plot windows opened over the life of the form
MaxDialogs == 2      \* variable-selection windows open at the same time
MaxDfRows == 2       \* rows of the table handed to the extraction alone
MaxFields == 3       \* colon-separated fields of a typed time

None == <<>>         \* Python's None; a value x that may be None is <<x>>
False == "False"     \* Python's False, where a header or a flag is expected

(***************************************************************************)
(* PlotMapVars: the enumerated variable tags.                              *)
(***************************************************************************)
TIME == "Time"
ALT == "Altitude [km]"
INC == "Inclination [deg]"
TA == "True Anomaly [km]"
RAAN == "RAAN [deg]"
AOP == "AOP [deg]"
ECC == "ECC"
SPD == "ECI Speed [km/s]"

PlotMapVars == {TIME, ALT, INC, TA, RAAN, AOP, ECC, SPD}

\* instrupy.util.Constants.radiusOfEarthInKM, to the kilometre
radiusOfEarthInKM == 6378

RECURSIVE SqrtSearch(_, _, _)
SqrtSearch(n, lo, hi) ==
    IF lo >= hi THEN lo
    ELSE LET mid == (lo + hi + 1) \div 2
         IN  IF mid * mid <= n THEN SqrtSearch(n, mid, hi)
                               ELSE SqrtSearch(n, lo, mid - 1)

\* np.sqrt on a non-negative number (exact on perfect squares)
Sqrt(n) == SqrtSearch(n, 0, IF n < 46340 THEN n ELSE 46340)

\* 60**k
RECURSIVE Pow60(_)
Pow60(k) == IF k = 0 THEN 1 ELSE 60 * Pow60(k - 1)

\* list.reverse()
Reverse(s) == [k \in 1..Len(s) |-> s[Len(s) + 1 - k]]

\* int(a / b) for b > 0: truncation towards zero
TruncDiv(a, b) == IF a >= 0 THEN a \div b ELSE 0 - ((0 - a) \div b)

(***************************************************************************)
(* PlotMapVars.get_orbitpy_file_column_header: the column of a direct      *)
(* variable, False for every other tag.                                    *)
(***************************************************************************)
get_orbitpy_file_column_header(var) ==
    IF var = INC THEN "inc [deg]"
    ELSE IF var = RAAN THEN "raan [deg]"
    ELSE IF var = AOP THEN "aop [deg]"
    ELSE IF var = TA THEN "ta [deg]"
    ELSE IF var = ECC THEN "ecc"
    ELSE False

(***************************************************************************)
(* A table (pandas.DataFrame) is a sequence of rows in file order; a row   *)
(* is [index |-> time index, cols |-> [column header -> value]].           *)
(***************************************************************************)
IndexName == "time index"

Column(sat_df, header) == [m \in 1..Len(sat_df) |-> sat_df[m].cols[header]]

IndexOf(sat_df) == [m \in 1..Len(sat_df) |-> sat_df[m].index]

Squares(a) == [m \in 1..Len(a) |-> a[m] * a[m]]

(***************************************************************************)
(* PlotMapVars.get_data_from_orbitpy_file.  The result is                  *)
(* [raised |-> FALSE, label, data] or, when the return statement adds     *)
(* False to a string (an unrecognised tag), [raised |-> TRUE].             *)
(***************************************************************************)
\* the distance from the Earth's centre instead of the altitude
AltitudeData_NoRadius(sat_df) ==
    [m \in 1..Len(sat_df) |->
        Sqrt(sat_df[m].cols["x [km]"] * sat_df[m].cols["x [km]"]
           + sat_df[m].cols["y [km]"] * sat_df[m].cols["y [km]"]
           + sat_df[m].cols["z [km]"] * sat_df[m].cols["z [km]"])]

AltitudeData(sat_df) ==
    LET sq == [m \in 1..Len(sat_df) |->
                  Squares(Column(sat_df, "x [km]"))[m]
                + Squares(Column(sat_df, "y [km]"))[m]
                + Squares(Column(sat_df, "z [km]"))[m]]
    IN  [m \in 1..Len(sat_df) |-> Sqrt(sq[m]) - radiusOfEarthInKM]

SpeedData(sat_df) ==
    LET sq == [m \in 1..Len(sat_df) |->
                  Squares(Column(sat_df, "vx [km/s]"))[m]
                + Squares(Column(sat_df, "vy [km/s]"))[m]
                + Squares(Column(sat_df, "vz [km/s]"))[m]]
    IN  [m \in 1..Len(sat_df) |-> Sqrt(sq[m])]

TimeData(sat_df, step_size) ==
    [m \in 1..Len(sat_df) |-> IndexOf(sat_df)[m] * step_size]

SeriesLabel(sat_id, header) == sat_id \o "." \o header

\* an extraction that returns an empty, unnamed series for an unrecognised tag
get_data_from_orbitpy_file_FallThrough(sat_df, sat_id, var, step_size, epoch_JDUT1) ==
    LET _header == get_orbitpy_file_column_header(var)
    IN  IF _header # False
        THEN [raised |-> FALSE,
              label |-> SeriesLabel(sat_id, _header),
              data |-> Column(sat_df, _header)]
        ELSE IF var = TIME
        THEN [raised |-> FALSE,
              label |-> SeriesLabel(sat_id, "time [s]"),
              data |-> TimeData(sat_df, step_size)]
        ELSE IF var = ALT
        THEN [raised |-> FALSE,
              label |-> SeriesLabel(sat_id, "alt [km]"),
              data |-> AltitudeData(sat_df)]
        ELSE IF var = SPD
        THEN [raised |-> FALSE,
              label |-> SeriesLabel(sat_id, "speed [km/s]"),
              data |-> SpeedData(sat_df)]
        ELSE [raised |-> FALSE,
              label |-> SeriesLabel(sat_id, ""),
              data |-> [m \in 1..Len(sat_df) |-> 0]]

get_data_from_orbitpy_file(sat_df, sat_id, var, step_size, epoch_JDUT1) ==
    LET _header == get_orbitpy_file_column_header(var)
    IN  IF _header # False
        THEN [raised |-> FALSE,
              label |-> SeriesLabel(sat_id, _header),
              data |-> IF _header = IndexName THEN IndexOf(sat_df)
                                              ELSE Column(sat_df, _header)]
        ELSE IF var = TIME
        THEN [raised |-> FALSE,
              label |-> SeriesLabel(sat_id, "time [s]"),
              data |-> TimeData(sat_df, step_size)]
        ELSE IF var = ALT
        THEN [raised |-> FALSE,
              label |-> SeriesLabel(sat_id, "alt [km]"),
              data |-> AltitudeData(sat_df)]
        ELSE IF var = SPD
        THEN [raised |-> FALSE,
              label |-> SeriesLabel(sat_id, "speed [km/s]"),
              data |-> SpeedData(sat_df)]
        ELSE [raised |-> TRUE]

(***************************************************************************)
(* MapVisPlotAttibutes: the attribute record and its methods.              *)
(***************************************************************************)
MapVisPlotAttibutes ==
    [sat_id |-> <<>>, var |-> <<>>, proj |-> None,
     time_start |-> None, time_end |-> None]

\* an append that skips a pair the lists already hold
update_variables_NoDuplicate(attr, sat_id, var) ==
    IF \E k \in 1..Len(attr.sat_id) : attr.sat_id[k] = sat_id /\ attr.var[k] = var
    THEN attr
    ELSE [attr EXCEPT !.sat_id = Append(@, sat_id), !.var = Append(@, var)]

update_variables(attr, sat_id, var) ==
    [attr EXCEPT !.sat_id = Append(@, sat_id), !.var = Append(@, var)]

\* a projection setter that also empties the two lists
update_projection_DropsPairs(attr, proj) ==
    [attr EXCEPT !.proj = proj, !.sat_id = <<>>, !.var = <<>>]

update_projection(attr, proj) == [attr EXCEPT !.proj = proj]

\* a reset that forgets the variable list
reset_variables_SatOnly(attr) == [attr EXCEPT !.sat_id = <<>>]

reset_variables(attr) == [attr EXCEPT !.sat_id = <<>>, !.var = <<>>]

\* a setter that stores the start time twice
update_time_interval_StartTwice(attr, time_start, time_end) ==
    [attr EXCEPT !.time_start = time_start, !.time_end = time_start]

update_time_interval(attr, time_start, time_end) ==
    [attr EXCEPT !.time_start = time_start, !.time_end = time_end]

(***************************************************************************)
(* The mission configuration the form reads (config.mission) and the       *)
(* propagation files behind it.  Both are read-only for the form.          *)
(***************************************************************************)
\* config.mission.spacecraft ids, in roster order
available_sats == <<"Sat1", "Sat2">>

\* the satellites config.mission.outputInfo holds propagation output for
RegisteredSats == {"Sat1"}

\* metadata of the state files: step size in seconds
FileStepSize == 9000

\* metadata of the state files: epoch (JDUT1), kept symbolic
FileEpoch == "epoch_JDUT1"

CartRow(i) ==
    [index |-> i,
     cols |-> [h \in {"x [km]", "y [km]", "z [km]",
                      "vx [km/s]", "vy [km/s]", "vz [km/s]"} |->
                  CASE h = "x [km]" -> 7000
                    [] h = "y [km]" -> 0
                    [] h = "z [km]" -> 0
                    [] h = "vx [km/s]" -> 3
                    [] h = "vy [km/s]" -> 4
                    [] OTHER -> 0]]

KepRow(i) ==
    [index |-> i,
     cols |-> [h \in {"inc [deg]", "raan [deg]", "aop [deg]", "ta [deg]", "ecc"} |->
                  CASE h = "inc [deg]" -> 98
                    [] h = "ta [deg]" -> 10 * i
                    [] OTHER -> 0]]

\* pd.read_csv(stateCartFile).set_index('time index')
ReadCartFile(sat) == [m \in 1..(MaxRow + 1) |-> CartRow(m - 1)]

\* pd.read_csv(stateKeplerianFile).set_index('time index')
ReadKepFile(sat) == [m \in 1..(MaxRow + 1) |-> KepRow(m - 1)]

\* df.iloc[a:b] for 0 <= a <= b: positions a..b-1, clamped to the table
ILoc(df, a, b) ==
    LET hi == IF b > Len(df) THEN Len(df) ELSE b
    IN  IF a >= hi THEN <<>> ELSE SubSeq(df, a + 1, hi)

\* pd.concat([cart, kep], axis=1) of two tables over the same index
Concat(cart, kep) ==
    [m \in 1..Len(cart) |->
        [index |-> cart[m].index,
         cols |-> [h \in DOMAIN cart[m].cols \cup DOMAIN kep[m].cols |->
                      IF h \in DOMAIN cart[m].cols THEN cart[m].cols[h]
                                                   ELSE kep[m].cols[h]]]]

SeqMin(s) == CHOOSE v \in {s[k] : k \in 1..Len(s)} :
                 \A w \in {s[k] : k \in 1..Len(s)} : v <= w

SeqMax(s) == CHOOSE v \in {s[k] : k \in 1..Len(s)} :
                 \A w \in {s[k] : k \in 1..Len(s)} : v >= w

\* instrupy.util.GeoUtilityFunctions.eci2geo, kept symbolic; the time
\* argument epoch + index*step/86400 is kept as the seconds past the epoch
eci2geo(row, step_size) ==
    [lat |-> <<"lat", row.cols["x [km]"], row.cols["y [km]"], row.cols["z [km]"],
               row.index * step_size>>,
     lon |-> <<"lon", row.cols["x [km]"], row.cols["y [km]"], row.cols["z [km]"],
               row.index * step_size>>]

(***************************************************************************)
(* The projection sub-forms.                                               *)
(***************************************************************************)
\* the classes the constructor instantiates, in loop order
FrameClasses == <<"Mercator", "EquidistantConic", "LambertConformal",
                  "Robinson", "LambertAzimuthalEqualArea", "Gnomonic">>

PROJ_TYPES == {FrameClasses[k] : k \in 1..Len(FrameClasses)}

\* <sub-form>.get_specs(): the projection the sub-form describes
get_specs(frame) == [projection |-> frame]

(***************************************************************************)
(* State.                                                                  *)
(***************************************************************************)
VARIABLES
    vis_map_attr,             \* self.vis_map_attr
    vis_map_time_from_entry,  \* text of the "From" entry, as fields
    vis_map_time_to_entry,    \* text of the "To" entry, as fields
    _proj_type,               \* text of the projection combobox
    _prj_typ_frame,           \* self._prj_typ_frame
    raised_frame,             \* the sub-form on top of the stacking order
    _vis_map_var,             \* value of the StringVar self._vis_map_var
    var_win_open,             \* the window whose radio buttons hold it is open
    select_var_wins,          \* number of open variable-selection windows
    vis_map_var_sel_disp,     \* text of the summary box
    fig_wins,                 \* plot windows opened so far
    plot,                     \* the run of the handler that has just ended,
                              \* when it was click_plot_btn (NoPlot otherwise)
    added,                    \* history: the pairs added since the latest opening
    origin,                   \* history: the Add press each list entry is from
    last_proj_selected,       \* history: latest projection picked in the combobox
    sat_df,                   \* input of a stand-alone extraction
    extracted                 \* result of a stand-alone extraction

timeVars == <<vis_map_time_from_entry, vis_map_time_to_entry>>

projVars == <<_proj_type, _prj_typ_frame, raised_frame, last_proj_selected>>

dialogVars == <<_vis_map_var, var_win_open, select_var_wins,
                vis_map_var_sel_disp>>

listVars == <<vis_map_attr, added, origin>>

plotVars == <<fig_wins, plot>>

formVars == <<timeVars, projVars, dialogVars, listVars, plotVars>>

extractVars == <<sat_df, extracted>>

vars == <<formVars, extractVars>>

(***************************************************************************)
(* Time entries.                                                           *)
(***************************************************************************)
IsNumber(field) == Len(field) = 1

\* float(field), for text float() accepts
float(field) == field[1]

AllNumbers(text) == \A k \in 1..Len(text) : IsNumber(text[k])

\* the loop "for k in range(0, len(t)): x = x + float(t[k]) * (60**k)"
RECURSIVE TimeLoop(_, _, _)
TimeLoop(t, k, x) ==
    IF k >= Len(t) THEN x
    ELSE TimeLoop(t, k + 1, x + float(t[k + 1]) * Pow60(k))

\* the conversion without the reverse() call
ToSeconds_NoReverse(text) == TimeLoop(text, 0, 0)

\* split(":"), reverse, convert to seconds
ToSeconds(text) == TimeLoop(Reverse(text), 0, 0)

(***************************************************************************)
(* VisMapFrame.update_time_interval_in_attributes_variable: the record     *)
(* after the call, and whether float() raised before the record was        *)
(* written.                                                                *)
(***************************************************************************)
update_time_interval_in_attributes_variable(attr, from_text, to_text) ==
    IF AllNumbers(from_text) /\ AllNumbers(to_text)
    THEN [raised |-> FALSE,
          attr |-> update_time_interval(attr, <<ToSeconds(from_text)>>,
                                              <<ToSeconds(to_text)>>)]
    ELSE [raised |-> TRUE, attr |-> attr]

(***************************************************************************)
(* VisMapFrame.update_projection_in_attributes_variable                    *)
(***************************************************************************)
update_projection_in_attributes_variable(attr, frame) ==
    update_projection(attr, <<get_specs(frame)>>)

(***************************************************************************)
(* VisMapFrame.__init__: the sub-form loop and the default projection.     *)
(* Every sub-form is gridded into the same cell, so after the loop the one *)
(* created last is on top; then the Mercator sub-form is chosen and raised.*)
(***************************************************************************)
FramesAfterLoop ==
    [frame |-> FrameClasses[Len(FrameClasses)],
     raised |-> FrameClasses[Len(FrameClasses)]]

InitFrames ==
    [FramesAfterLoop EXCEPT !.frame = "Mercator", !.raised = "Mercator"]

\* the handler without its tkraise() call
proj_type_combobox_change_NoRaise(ptype, frame, raised) ==
    [frame |-> IF ptype \in {FrameClasses[k] : k \in 1..Len(FrameClasses)}
               THEN ptype ELSE frame,
     raised |-> raised]

\* the <<ComboboxSelected>> handler
proj_type_combobox_change(ptype, frame, raised) ==
    LET chosen == IF ptype = "Mercator" THEN "Mercator"
                  ELSE IF ptype = "EquidistantConic" THEN "EquidistantConic"
                  ELSE IF ptype = "LambertConformal" THEN "LambertConformal"
                  ELSE IF ptype = "Robinson" THEN "Robinson"
                  ELSE IF ptype = "LambertAzimuthalEqualArea"
                       THEN "LambertAzimuthalEqualArea"
                  ELSE IF ptype = "Gnomonic" THEN "Gnomonic"
                  ELSE frame
    IN  [frame |-> chosen, raised |-> chosen]

(***************************************************************************)
(* click_exit_btn: the summary text.                                       *)
(***************************************************************************)
RECURSIVE Join(_)
Join(strs) ==
    IF Len(strs) = 0 THEN ""
    ELSE IF Len(strs) = 1 THEN strs[1]
    ELSE strs[1] \o " " \o Join(Tail(strs))

SummaryText(attr) ==
    Join([k \in 1..Len(attr.sat_id) |-> attr.sat_id[k] \o "." \o attr.var[k]])

(***************************************************************************)
(* VisMapFrame.click_plot_btn.                                             *)
(*                                                                         *)
(* plt_data, the derived plot buffer, is a function from column keys to    *)
(* columns; assigning to a key that exists replaces that column.           *)
(***************************************************************************)
SetColumn(plt_data, key, col) ==
    [c \in DOMAIN plt_data \cup {key} |-> IF c = key THEN col ELSE plt_data[c]]

\* the loop "for k in range(0, num_vars)" that fills the buffer, from pass k
RECURSIVE FillBuffer(_, _, _, _, _, _, _)
FillBuffer(sat_id, var, k, start_index, end_index, step_size, acc) ==
    IF k > Len(var) THEN acc
    ELSE IF sat_id[k] \notin RegisteredSats
    THEN [acc EXCEPT !.raised = "LookupFailure"]
    ELSE LET _sat_df == Concat(ILoc(ReadCartFile(sat_id[k]), start_index, end_index),
                               ILoc(ReadKepFile(sat_id[k]), start_index, end_index))
             _lat == [m \in 1..Len(_sat_df) |-> eci2geo(_sat_df[m], step_size).lat]
             _lon == [m \in 1..Len(_sat_df) |-> eci2geo(_sat_df[m], step_size).lon]
             r == get_data_from_orbitpy_file(_sat_df, sat_id[k], var[k],
                                             step_size, FileEpoch)
         IN  IF r.raised
             THEN [acc EXCEPT !.raised = "TypeError"]
             ELSE FillBuffer(sat_id, var, k + 1, start_index, end_index, step_size,
                    [raised |-> acc.raised,
                     varname |-> Append(acc.varname, r.label),
                     plt_data |->
                        SetColumn(SetColumn(SetColumn(acc.plt_data,
                            r.label \o "lat [deg]", _lat),
                            r.label \o "lon [deg]", _lon),
                            r.label, r.data)])

\* a figure with a colorbar for the last series only
Render_OneColorbar(proj, varname, plt_data) ==
    [proj |-> proj,
     scatter |-> [k \in 1..Len(varname) |->
                    [lon |-> plt_data[varname[k] \o "lon [deg]"],
                     lat |-> plt_data[varname[k] \o "lat [deg]"],
                     c |-> plt_data[varname[k]]]],
     colorbar |-> <<varname[Len(varname)]>>,
     columns |-> DOMAIN plt_data]

\* the figure drawn from the buffer: one scatter and one colorbar per pass
Render(proj, varname, plt_data) ==
    [proj |-> proj,
     scatter |-> [k \in 1..Len(varname) |->
                    [lon |-> plt_data[varname[k] \o "lon [deg]"],
                     lat |-> plt_data[varname[k] \o "lat [deg]"],
                     c |-> plt_data[varname[k]]]],
     colorbar |-> [k \in 1..Len(varname) |-> varname[k]],
     columns |-> DOMAIN plt_data]

NoFig == [proj |-> None, scatter |-> <<>>, colorbar |-> <<>>, columns |-> {}]

NoIndices == [indexed |-> FALSE, time_start_index |-> 0, time_end_index |-> 0,
              min_time_index |-> 0, max_time_index |-> 0]

\* the bounds check without its test of the order of the two indices
OutOfBounds_NoOrder(time_start_index, time_end_index, min_time_index, max_time_index) ==
    \/ time_start_index < min_time_index
    \/ time_start_index > max_time_index
    \/ time_end_index < min_time_index
    \/ time_end_index > max_time_index

\* lines 370-375: the user-specified interval is not within bounds
OutOfBounds(time_start_index, time_end_index, min_time_index, max_time_index) ==
    \/ time_start_index < min_time_index
    \/ time_start_index > max_time_index
    \/ time_end_index < min_time_index
    \/ time_end_index > max_time_index
    \/ time_start_index > time_end_index

(***************************************************************************)
(* One run of the handler from a given form state:                         *)
(*   attr     the attribute record when the handler ends                   *)
(*   outcome  "rendered", "aborted" (the bounds check returned) or the     *)
(*            exception that ended the handler                             *)
(*   opened   whether tk.Toplevel() for the figure was reached             *)
(*   logged   whether logger.info was called                               *)
(*   fig      the figure drawn                                             *)
(*   idx      the row indices and row range, when they were computed       *)
(***************************************************************************)
PlotRun(attr, from_text, to_text, frame) ==
    LET t == update_time_interval_in_attributes_variable(attr, from_text, to_text)
        a == update_projection_in_attributes_variable(t.attr, frame)
        fail(at, what) == [attr |-> at, outcome |-> what, opened |-> FALSE,
                           logged |-> FALSE, fig |-> NoFig, idx |-> NoIndices]
    IN  IF t.raised THEN fail(attr, "ValueError")
        ELSE IF Len(a.sat_id) = 0 THEN fail(a, "IndexError")
        ELSE IF a.sat_id[1] \notin RegisteredSats THEN fail(a, "LookupFailure")
        ELSE
        LET step_size == FileStepSize
            time_start_index == TruncDiv(a.time_start[1], step_size)
            time_end_index == TruncDiv(a.time_end[1], step_size)
            sat_state_df == ReadCartFile(a.sat_id[1])
            min_time_index == SeqMin(IndexOf(sat_state_df))
            max_time_index == SeqMax(IndexOf(sat_state_df))
            idx == [indexed |-> TRUE,
                    time_start_index |-> time_start_index,
                    time_end_index |-> time_end_index,
                    min_time_index |-> min_time_index,
                    max_time_index |-> max_time_index]
        IN  IF OutOfBounds(time_start_index, time_end_index,
                           min_time_index, max_time_index)
            THEN [attr |-> a, outcome |-> "aborted", opened |-> FALSE,
                  logged |-> TRUE, fig |-> NoFig, idx |-> idx]
            ELSE
            LET b == FillBuffer(a.sat_id, a.var, 1, time_start_index,
                                time_end_index, step_size,
                                [raised |-> "", varname |-> <<>>, plt_data |-> <<>>])
            IN  IF b.raised # ""
                THEN [attr |-> a, outcome |-> b.raised, opened |-> FALSE,
                      logged |-> FALSE, fig |-> NoFig, idx |-> idx]
                ELSE [attr |-> a, outcome |-> "rendered", opened |-> TRUE,
                      logged |-> FALSE,
                      fig |-> Render(a.proj, b.varname, b.plt_data), idx |-> idx]

(***************************************************************************)
(* The form after construction.                                            *)
(***************************************************************************)
DefaultFrom == << <<0>>, <<0>>, <<0>> >>      \* '00:00:00'
DefaultTo == << <<10>>, <<0>>, <<0>> >>       \* '10:00:00'
Cleared == << <<>> >>                         \* '' after delete('0', 'end')

NoPlot == [outcome |-> "none", opened |-> FALSE, logged |-> FALSE,
           fig |-> NoFig, idx |-> NoIndices]

\* a handler other than click_plot_btn has run: no plot window is opened
NotPlotting == plot' = NoPlot /\ UNCHANGED fig_wins

NoTable == <<>>
NoExtract == [sat_id |-> "", var |-> "", step_size |-> 0,
              result |-> [raised |-> TRUE]]

InitForm ==
    /\ vis_map_attr = MapVisPlotAttibutes
    /\ vis_map_time_from_entry = DefaultFrom
    /\ vis_map_time_to_entry = DefaultTo
    /\ _proj_type = "Mercator"
    /\ _prj_typ_frame = InitFrames.frame
    /\ raised_frame = InitFrames.raised
    /\ last_proj_selected = "Mercator"
    /\ _vis_map_var = ""
    /\ var_win_open = FALSE
    /\ select_var_wins = 0
    /\ vis_map_var_sel_disp = ""
    /\ fig_wins = 0
    /\ plot = NoPlot
    /\ added = <<>>
    /\ origin = [sat_id |-> <<>>, var |-> <<>>]

Init == InitForm /\ sat_df = NoTable /\ extracted = NoExtract

(***************************************************************************)
(* Time entries: <FocusIn> empties the entry; the user then types.         *)
(***************************************************************************)
FocusInFrom ==
    /\ vis_map_time_from_entry' = Cleared
    /\ NotPlotting
    /\ UNCHANGED <<vis_map_time_to_entry, projVars, dialogVars, listVars,
                   extractVars>>

FocusInTo ==
    /\ vis_map_time_to_entry' = Cleared
    /\ NotPlotting
    /\ UNCHANGED <<vis_map_time_from_entry, projVars, dialogVars, listVars,
                   extractVars>>

TypeFrom(texts) ==
    /\ \E t \in texts : vis_map_time_from_entry' = t
    /\ NotPlotting
    /\ UNCHANGED <<vis_map_time_to_entry, projVars, dialogVars, listVars,
                   extractVars>>

TypeTo(texts) ==
    /\ \E t \in texts : vis_map_time_to_entry' = t
    /\ NotPlotting
    /\ UNCHANGED <<vis_map_time_from_entry, projVars, dialogVars, listVars,
                   extractVars>>

(***************************************************************************)
(* Projection combobox: picking an entry of the list sets the text and     *)
(* fires <<ComboboxSelected>>; typing into the box only sets the text.     *)
(***************************************************************************)
SelectProjection(types) ==
    /\ \E p \in types :
          LET r == proj_type_combobox_change(p, _prj_typ_frame, raised_frame)
          IN  /\ _proj_type' = p
              /\ _prj_typ_frame' = r.frame
              /\ raised_frame' = r.raised
              /\ last_proj_selected' = p
    /\ NotPlotting
    /\ UNCHANGED <<timeVars, dialogVars, listVars, extractVars>>

TypeProjection(texts) ==
    /\ \E t \in texts : _proj_type' = t
    /\ NotPlotting
    /\ UNCHANGED <<_prj_typ_frame, raised_frame, last_proj_selected, timeVars,
                   dialogVars, listVars, extractVars>>

(***************************************************************************)
(* VisMapFrame.click_select_var_btn and the handlers of the window it      *)
(* creates.  The window is a plain tk.Toplevel(): nothing grabs the input, *)
(* so the form and every open window stay live.                            *)
(***************************************************************************)
click_select_var_btn ==
    /\ select_var_wins < MaxDialogs
    /\ vis_map_attr' = reset_variables(vis_map_attr)
    /\ origin' = reset_variables(origin)
    /\ added' = <<>>
    /\ select_var_wins' = select_var_wins + 1
    /\ _vis_map_var' = ""
    /\ var_win_open' = TRUE
    /\ NotPlotting
    /\ UNCHANGED <<vis_map_var_sel_disp, timeVars, projVars, extractVars>>

\* a radio button of the window that created the current StringVar
click_var_rbtn(tags) ==
    /\ var_win_open
    /\ \E v \in tags : _vis_map_var' = v
    /\ NotPlotting
    /\ UNCHANGED <<var_win_open, select_var_wins, vis_map_var_sel_disp,
                   timeVars, projVars, listVars, extractVars>>

\* Add, in any open window, with the text of that window's satellite box
click_ok_btn(sats) ==
    /\ select_var_wins > 0
    /\ Len(added) < MaxAdds
    /\ \E sat \in sats :
          /\ vis_map_attr' = update_variables(vis_map_attr, sat, _vis_map_var)
          /\ origin' = update_variables(origin, Len(added) + 1, Len(added) + 1)
          /\ added' = Append(added, <<sat, _vis_map_var>>)
    /\ NotPlotting
    /\ UNCHANGED <<dialogVars, timeVars, projVars, extractVars>>

\* Exit, in the window that created the current StringVar or in another one
click_exit_btn ==
    /\ select_var_wins > 0
    /\ vis_map_var_sel_disp' = SummaryText(vis_map_attr)
    /\ select_var_wins' = select_var_wins - 1
    /\ \/ var_win_open /\ var_win_open' = FALSE
       \/ select_var_wins > (IF var_win_open THEN 1 ELSE 0)
          /\ var_win_open' = var_win_open
    /\ NotPlotting
    /\ UNCHANGED <<_vis_map_var, timeVars, projVars, listVars, extractVars>>

(***************************************************************************)
(* The Plot button.                                                        *)
(***************************************************************************)
click_plot_btn ==
    /\ fig_wins < MaxPlots
    /\ \E r \in {PlotRun(vis_map_attr, vis_map_time_from_entry,
                         vis_map_time_to_entry, _prj_typ_frame)} :
           /\ vis_map_attr' = r.attr
           /\ fig_wins' = IF r.opened THEN fig_wins + 1 ELSE fig_wins
           /\ plot' = [outcome |-> r.outcome, opened |-> r.opened,
                       logged |-> r.logged, fig |-> r.fig, idx |-> r.idx]
    /\ UNCHANGED <<added, origin, timeVars, projVars, dialogVars, extractVars>>

(***************************************************************************)
(* The form under every user action, with a few inputs of each kind.       *)
(***************************************************************************)
FormFromTexts == {DefaultFrom}
FormToTexts == {DefaultTo}
FormProjTypes == {"Mercator", "Robinson"}
FormSats == {"Sat1"}
FormTags == {ALT, SPD}

Next ==
    \/ FocusInFrom
    \/ FocusInTo
    \/ TypeFrom(FormFromTexts)
    \/ TypeTo(FormToTexts)
    \/ SelectProjection(FormProjTypes)
    \/ click_select_var_btn
    \/ click_var_rbtn(FormTags)
    \/ click_ok_btn(FormSats)
    \/ click_exit_btn
    \/ click_plot_btn

Spec == Init /\ [][Next]_vars

(***************************************************************************)
(* The variable-selection windows and Plot, with two tags besides the      *)
(* empty one the StringVar holds before any radio button is pressed, and   *)
(* two satellites, of which "Sat2" has no propagation output.              *)
(***************************************************************************)
VarsSats == {"Sat1", "Sat2"}
VarsTags == {ALT}

NextVars ==
    \/ click_select_var_btn
    \/ click_var_rbtn(VarsTags)
    \/ click_ok_btn(VarsSats)
    \/ click_exit_btn
    \/ click_plot_btn

SpecVars == Init /\ [][NextVars]_vars

(***************************************************************************)
(* The form once one series, Sat1 with Altitude, has been selected: the    *)
(* state after Var(s), the Altitude radio button, Add and Exit.            *)
(***************************************************************************)
InitSeries ==
    LET attr == update_variables(reset_variables(MapVisPlotAttibutes), "Sat1", ALT)
    IN  /\ vis_map_attr = attr
        /\ added = << <<"Sat1", ALT>> >>
        /\ origin = [sat_id |-> <<1>>, var |-> <<1>>]
        /\ _vis_map_var = ALT
        /\ var_win_open = FALSE
        /\ select_var_wins = 0
        /\ vis_map_var_sel_disp = SummaryText(attr)
        /\ _proj_type = "Mercator"
        /\ _prj_typ_frame = InitFrames.frame
        /\ raised_frame = InitFrames.raised
        /\ last_proj_selected = "Mercator"
        /\ fig_wins = 0
        /\ plot = NoPlot
        /\ sat_df = NoTable
        /\ extracted = NoExtract

(***************************************************************************)
(* Time windows: any texts of up to MaxFields fields in the two entries,   *)
(* then Plot.                                                              *)
(***************************************************************************)
TimeFields == {<<>>, <<-3>>, <<5>>, <<15>>}
TimeTexts == UNION {[1..n -> TimeFields] : n \in 1..MaxFields}

InitTime ==
    /\ InitSeries
    /\ vis_map_time_from_entry \in TimeTexts
    /\ vis_map_time_to_entry \in TimeTexts

NextTime == click_plot_btn

SpecTime == InitTime /\ [][NextTime]_vars

(***************************************************************************)
(* Projections: every entry of the combobox, any typed text, then Plot.    *)
(***************************************************************************)
InitProj ==
    /\ InitSeries
    /\ vis_map_time_from_entry = DefaultFrom
    /\ vis_map_time_to_entry = DefaultTo

NextProj ==
    \/ SelectProjection(PROJ_TYPES)
    \/ TypeProjection(PROJ_TYPES \cup {""})
    \/ click_plot_btn

SpecProj == InitProj /\ [][NextProj]_vars

(***************************************************************************)
(* The extraction alone: any table of up to MaxDfRows consecutive rows,    *)
(* any satellite, tag and step size.                                       *)
(***************************************************************************)
Positions == {<<7000, 0, 0>>, <<2000, 3000, 6000>>, <<0, 0, -6378>>}
Velocities == {<<3, 4, 0>>, <<-2, 3, 6>>, <<0, 0, 0>>}
FirstIndices == {0, 3}
StepSizes == {1, 9000}

Row(i, pos, vel) ==
    [index |-> i,
     cols |-> [h \in DOMAIN CartRow(i).cols \cup DOMAIN KepRow(i).cols |->
                  CASE h = "x [km]" -> pos[1]
                    [] h = "y [km]" -> pos[2]
                    [] h = "z [km]" -> pos[3]
                    [] h = "vx [km/s]" -> vel[1]
                    [] h = "vy [km/s]" -> vel[2]
                    [] h = "vz [km/s]" -> vel[3]
                    [] OTHER -> KepRow(i).cols[h]]]

Tables ==
    {[m \in 1..n |-> Row(i0 + m - 1, pv[m][1], pv[m][2])] :
        <<n, i0, pv>> \in
          UNION {{<<n, i0, pv>> : i0 \in FirstIndices,
                                pv \in [1..n -> Positions \X Velocities]} :
                 n \in 0..MaxDfRows}}

InitExtract ==
    /\ InitForm
    /\ sat_df \in Tables
    /\ extracted = NoExtract

Extract ==
    /\ \E sat \in VarsSats, var \in PlotMapVars \cup {""}, step_size \in StepSizes :
          extracted' = [sat_id |-> sat, var |-> var, step_size |-> step_size,
                        result |-> get_data_from_orbitpy_file(sat_df, sat, var,
                                                              step_size, FileEpoch)]
    /\ UNCHANGED <<sat_df, formVars>>

NextExtract == Extract

SpecExtract == InitExtract /\ [][NextExtract]_vars

(***************************************************************************)
(* The three setup phases in any order: two valid texts for each time      *)
(* entry, one projection besides the default, one series, then Plot.       *)
(***************************************************************************)
PhaseFromTexts == {DefaultFrom, << <<2>>, <<30>>, <<0>> >>}     \* '02:30:00'
PhaseToTexts == {DefaultTo, << <<5>>, <<0>>, <<0>> >>}          \* '05:00:00'
PhaseProjTypes == {"Robinson"}
PhaseSats == {"Sat1"}
PhaseTags == {ALT}

NextPhases ==
    \/ FocusInFrom
    \/ FocusInTo
    \/ TypeFrom(PhaseFromTexts)
    \/ TypeTo(PhaseToTexts)
    \/ SelectProjection(PhaseProjTypes)
    \/ click_select_var_btn
    \/ click_var_rbtn(PhaseTags)
    \/ click_ok_btn(PhaseSats)
    \/ click_exit_btn
    \/ click_plot_btn

SpecPhases == Init /\ [][NextPhases]_vars

(***************************************************************************)
(* Plot after every way of getting the form wrong: the "From" entry        *)
(* emptied by <FocusIn>, no pair added, a satellite without propagation    *)
(* output, Add pressed before any radio button.                            *)
(***************************************************************************)
NextFail ==
    \/ FocusInFrom
    \/ TypeFrom(FormFromTexts)
    \/ click_select_var_btn
    \/ click_var_rbtn(VarsTags)
    \/ click_ok_btn(VarsSats)
    \/ click_exit_btn
    \/ click_plot_btn

SpecFail == Init /\ [][NextFail]_vars

(***************************************************************************)
(* Properties.                                                             *)
(***************************************************************************)
PlotRan == plot.outcome # "none"

\* the window of the latest Plot run lies outside the rows 0..MaxRow of the
\* file, or is inverted
WindowOutside(idx) ==
    \/ idx.time_start_index \notin 0..MaxRow
    \/ idx.time_end_index \notin 0..MaxRow
    \/ idx.time_start_index > idx.time_end_index

\* C1: a Plot run whose start or end index lies outside the file's row range,
\* or whose start index exceeds its end index, logs, returns without an
\* exception and opens no plot window.
C1_BoundsAbort ==
    [][(plot'.outcome # "none" /\ plot'.idx.indexed /\ WindowOutside(plot'.idx))
          => /\ plot'.outcome = "aborted"
             /\ plot'.logged
             /\ ~plot'.opened
             /\ fig_wins' = fig_wins]_vars

\* a window past the last row has been refused
C1_Witness ==
    /\ plot.outcome = "aborted"
    /\ plot.idx.time_start_index > MaxRow
    /\ plot.idx.time_end_index > MaxRow
    /\ fig_wins = 0

\* the sum over i in 0..n-1 of f[n-1-i] * 60^i for the fields f of a text
FieldSum(text) ==
    LET n == Len(text)
        S[i \in 0..n] == IF i = 0 THEN 0
                         ELSE S[i - 1] + text[n - (i - 1)][1] * 60^(i - 1)
    IN  S[n]

\* C2: when both entries hold numeric fields only, the seconds Plot stores for
\* the start and for the end are the sum of field[n-1-i] * 60^i, whatever the
\* number n of fields.
C2_TimeParsing ==
    (PlotRan /\ AllNumbers(vis_map_time_from_entry)
             /\ AllNumbers(vis_map_time_to_entry))
       => /\ plot.outcome # "ValueError"
          /\ vis_map_attr.time_start = <<FieldSum(vis_map_time_from_entry)>>
          /\ vis_map_attr.time_end = <<FieldSum(vis_map_time_to_entry)>>

\* "5:15" has been stored as 315 s and "5:15:-3" as 18897 s
C2_Witness ==
    /\ PlotRan
    /\ vis_map_time_from_entry = << <<5>>, <<15>> >>
    /\ vis_map_time_to_entry = << <<5>>, <<15>>, <<-3>> >>
    /\ vis_map_attr.time_start = <<315>>
    /\ vis_map_attr.time_end = <<18897>>

\* C3: the series of a rendered plot have pairwise distinct labels, so the
\* plot buffer holds three columns (longitude, latitude, value) per series
\* (stated for a Plot run with every variable-selection window closed).
C3_DistinctKeys ==
    (plot.outcome = "rendered" /\ select_var_wins = 0)
       => /\ \A j, k \in 1..Len(plot.fig.colorbar) :
                j # k => plot.fig.colorbar[j] # plot.fig.colorbar[k]
          /\ Cardinality(plot.fig.columns) = 3 * Len(vis_map_attr.var)

\* C4 as stated: a Plot run leaves the whole attribute record as it was.
C4_PlotKeepsRecord ==
    [][plot'.outcome # "none" => vis_map_attr' = vis_map_attr]_vars

\* C4, amended: a Plot run leaves the two lists, the entry texts and the
\* chosen sub-form as they were; unless a time text fails to parse it stores
\* the seconds of the two entries and the projection of the chosen sub-form in
\* the record, and otherwise it leaves the record alone; a Plot run that
\* follows a Plot run directly leaves the whole record as it was.
C4_PlotFrame ==
    [][plot'.outcome # "none"
          => /\ vis_map_attr'.sat_id = vis_map_attr.sat_id
             /\ vis_map_attr'.var = vis_map_attr.var
             /\ UNCHANGED <<timeVars, projVars, dialogVars>>
             /\ IF plot'.outcome = "ValueError"
                THEN vis_map_attr' = vis_map_attr
                ELSE /\ vis_map_attr'.time_start
                           = <<FieldSum(vis_map_time_from_entry)>>
                     /\ vis_map_attr'.time_end
                           = <<FieldSum(vis_map_time_to_entry)>>
                     /\ vis_map_attr'.proj = <<[projection |-> raised_frame]>>
             /\ (plot.outcome # "none" => vis_map_attr' = vis_map_attr)]_vars

\* a Plot run has followed a Plot run that filled the record
C4_Witness ==
    /\ plot.outcome = "rendered"
    /\ fig_wins = 2
    /\ vis_map_attr.time_start = <<0>>
    /\ vis_map_attr.time_end = <<36000>>
    /\ vis_map_attr.proj = <<[projection |-> "Robinson"]>>

\* the text "sat.var sat.var ..." of a sequence of pairs
RECURSIVE Shown(_)
Shown(pairs) ==
    IF pairs = <<>> THEN ""
    ELSE LET one == pairs[1][1] \o "." \o pairs[1][2]
         IN  IF Len(pairs) = 1 THEN one ELSE one \o " " \o Shown(Tail(pairs))

\* C5: opening the variable-selection window empties the two lists, each Add
\* appends one pair (duplicates included), so the lists hold in order the
\* pairs added since the latest opening; Exit shows exactly those pairs.
C5_Lifecycle ==
    [][/\ Len(vis_map_attr'.sat_id) = Len(added')
       /\ Len(vis_map_attr'.var) = Len(added')
       /\ \A k \in 1..Len(added') :
             <<vis_map_attr'.sat_id[k], vis_map_attr'.var[k]>> = added'[k]
       /\ select_var_wins' > select_var_wins
             => vis_map_attr'.sat_id = <<>> /\ vis_map_attr'.var = <<>>
       /\ Len(added') > Len(added)
             => Len(vis_map_attr'.sat_id) = Len(vis_map_attr.sat_id) + 1
       /\ select_var_wins' < select_var_wins
             => vis_map_var_sel_disp' = Shown(added)]_vars

\* the same pair was added twice and Exit has shown both
C5_Witness ==
    /\ select_var_wins = 0
    /\ added = << <<"Sat1", ALT>>, <<"Sat1", ALT>> >>
    /\ vis_map_attr.sat_id = <<"Sat1", "Sat1">>
    /\ vis_map_var_sel_disp = "Sat1.Altitude [km] Sat1.Altitude [km]"

\* C6: the satellite-id list and the variable list have the same length and
\* entry k of both comes from the same Add press.
C6_ParallelLists ==
    /\ Len(vis_map_attr.sat_id) = Len(vis_map_attr.var)
    /\ Len(origin.sat_id) = Len(vis_map_attr.sat_id)
    /\ Len(origin.var) = Len(vis_map_attr.var)
    /\ \A k \in 1..Len(origin.sat_id) : origin.sat_id[k] = origin.var[k]

\* two different pairs are held after a Plot run
C6_Witness ==
    /\ PlotRan
    /\ vis_map_attr.sat_id = <<"Sat1", "Sat1">>
    /\ vis_map_attr.var = <<ALT, SPD>>
    /\ origin.sat_id = <<1, 2>>

\* the header of each tag in a series name
NameHeader(var) ==
    CASE var = TIME -> "time [s]"
      [] var = ALT -> "alt [km]"
      [] var = SPD -> "speed [km/s]"
      [] var = INC -> "inc [deg]"
      [] var = RAAN -> "raan [deg]"
      [] var = AOP -> "aop [deg]"
      [] var = TA -> "ta [deg]"
      [] var = ECC -> "ecc"
      [] OTHER -> "?"

AllResolve(attr) ==
    /\ \A k \in 1..Len(attr.sat_id) : attr.sat_id[k] \in RegisteredSats
    /\ \A k \in 1..Len(attr.var) : attr.var[k] \in PlotMapVars

\* C7 as stated: a Plot run that passes the bounds check opens a plot window
\* (stated for a Plot run with every variable-selection window closed).
C7_PassedBoundsRenders ==
    (PlotRan /\ select_var_wins = 0 /\ plot.idx.indexed /\ ~WindowOutside(plot.idx))
       => plot.outcome = "rendered" /\ plot.opened

\* C7, amended: a Plot run that passes the bounds check and whose every pair
\* resolves (a satellite with propagation output, a tag of PlotMapVars) opens
\* exactly one plot window and draws one scatter and one colorbar per pair, the
\* colorbar labelled "{satellite_id}.{header}"; no other run and no other
\* action opens or closes a plot window.
C7_OneWindowPerRender ==
    [][/\ fig_wins' = IF plot'.outcome = "rendered" THEN fig_wins + 1 ELSE fig_wins
       /\ (plot'.outcome # "none" /\ plot'.idx.indexed
             /\ ~WindowOutside(plot'.idx) /\ AllResolve(vis_map_attr'))
             => plot'.outcome = "rendered"
       /\ plot'.outcome = "rendered"
             => /\ Len(plot'.fig.scatter) = Len(vis_map_attr'.var)
                /\ Len(plot'.fig.colorbar) = Len(vis_map_attr'.var)
                /\ \A k \in 1..Len(vis_map_attr'.var) :
                      plot'.fig.colorbar[k]
                         = vis_map_attr'.sat_id[k] \o "."
                              \o NameHeader(vis_map_attr'.var[k])]_vars

\* a second plot window holds two scatters and two colorbars
C7_Witness ==
    /\ plot.outcome = "rendered"
    /\ fig_wins = 2
    /\ Len(plot.fig.scatter) = 2
    /\ plot.fig.colorbar = <<"Sat1.alt [km]", "Sat1.alt [km]">>

\* C8: for every row, Time is row index * step size, Altitude is the norm of
\* the position minus the Earth radius and Speed is the norm of the velocity;
\* there is one value per row, in row order, under "{satellite_id}.{header}".
C8_Derived ==
    extracted.var \in {TIME, ALT, SPD}
       => LET r == extracted.result
              col(m, h) == sat_df[m].cols[h]
          IN  /\ ~r.raised
              /\ r.label = extracted.sat_id \o "." \o NameHeader(extracted.var)
              /\ Len(r.data) = Len(sat_df)
              /\ \A m \in 1..Len(sat_df) :
                    CASE extracted.var = TIME ->
                           r.data[m] = sat_df[m].index * extracted.step_size
                      [] extracted.var = ALT ->
                           LET d == r.data[m] + radiusOfEarthInKM
                           IN  /\ d >= 0
                               /\ d * d = col(m, "x [km]") * col(m, "x [km]")
                                        + col(m, "y [km]") * col(m, "y [km]")
                                        + col(m, "z [km]") * col(m, "z [km]")
                      [] OTHER ->
                           /\ r.data[m] >= 0
                           /\ r.data[m] * r.data[m]
                                 = col(m, "vx [km/s]") * col(m, "vx [km/s]")
                                 + col(m, "vy [km/s]") * col(m, "vy [km/s]")
                                 + col(m, "vz [km/s]") * col(m, "vz [km/s]")

\* the speeds of the velocities (3,4,0) and (-2,3,6) are 5 and 7
C8_Witness ==
    /\ extracted.var = SPD
    /\ Len(sat_df) = 2
    /\ sat_df[1].cols["vx [km/s]"] = 3 /\ sat_df[1].cols["vy [km/s]"] = 4
    /\ sat_df[2].cols["vz [km/s]"] = 6
    /\ extracted.result.data = <<5, 7>>
    /\ extracted.result.label = "Sat2.speed [km/s]"

\* C9: while a variable-selection window is open, no Plot run happens and no
\* further variable-selection window opens.
C9_Modal ==
    [][select_var_wins > 0
          => plot'.outcome = "none" /\ select_var_wins' <= select_var_wins]_vars

\* C10: the sub-form Plot reads is the raised one, which is Mercator at first
\* and then the sub-form of the projection picked last; the projection a Plot
\* run stores is that of the raised sub-form.
C10_VisibleSubForm ==
    /\ _prj_typ_frame = raised_frame
    /\ _prj_typ_frame = last_proj_selected
    /\ _prj_typ_frame \in PROJ_TYPES
    /\ (PlotRan /\ plot.outcome # "ValueError")
          => vis_map_attr.proj = <<[projection |-> raised_frame]>>

\* Plot has read the Gnomonic sub-form while the box shows a typed text
C10_Witness ==
    /\ plot.outcome = "rendered"
    /\ raised_frame = "Gnomonic"
    /\ _proj_type = "Robinson"
    /\ vis_map_attr.proj = <<[projection |-> "Gnomonic"]>>

\* the three parts of the configuration a Plot run reads
TimePart == <<vis_map_time_from_entry, vis_map_time_to_entry>>

ProjPart == <<_prj_typ_frame, raised_frame>>

PairPart == <<vis_map_attr.sat_id, vis_map_attr.var>>

\* C11: no step changes more than one of the time window, the projection and
\* the pair list, so each setup phase leaves the other two parts as they
\* were; the window, projection and pairs a Plot run uses are those the three
\* phases set last (the texts of the two entries, the projection picked last,
\* the pairs added since the latest opening), whatever the order of the phases.
C11_IndependentPhases ==
    [][/\ TimePart' # TimePart => ProjPart' = ProjPart /\ PairPart' = PairPart
       /\ ProjPart' # ProjPart => TimePart' = TimePart /\ PairPart' = PairPart
       /\ PairPart' # PairPart => TimePart' = TimePart /\ ProjPart' = ProjPart
       /\ plot'.outcome \notin {"none", "ValueError"}
             => /\ vis_map_attr'.time_start
                      = <<FieldSum(vis_map_time_from_entry')>>
                /\ vis_map_attr'.time_end
                      = <<FieldSum(vis_map_time_to_entry')>>
                /\ vis_map_attr'.proj
                      = <<[projection |-> last_proj_selected']>>
                /\ Len(vis_map_attr'.sat_id) = Len(added')
                /\ Len(vis_map_attr'.var) = Len(added')
                /\ \A k \in 1..Len(added') :
                      <<vis_map_attr'.sat_id[k], vis_map_attr'.var[k]>> = added'[k]
                /\ plot'.idx.indexed
                      => /\ plot'.idx.time_start_index
                               = TruncDiv(FieldSum(vis_map_time_from_entry'),
                                          FileStepSize)
                         /\ plot'.idx.time_end_index
                               = TruncDiv(FieldSum(vis_map_time_to_entry'),
                                          FileStepSize)
                /\ plot'.outcome = "rendered"
                      => /\ plot'.fig.proj
                               = <<[projection |-> last_proj_selected']>>
                         /\ Len(plot'.fig.scatter) = Len(added')]_vars

\* Plot has drawn one series over 02:30:00-05:00:00 on the Robinson projection
C11_Witness ==
    /\ plot.outcome = "rendered"
    /\ vis_map_time_from_entry = << <<2>>, <<30>>, <<0>> >>
    /\ vis_map_time_to_entry = << <<5>>, <<0>>, <<0>> >>
    /\ last_proj_selected = "Robinson"
    /\ added = << <<"Sat1", ALT>> >>
    /\ plot.idx.time_start_index = 1
    /\ plot.idx.time_end_index = 2
    /\ plot.fig.proj = <<[projection |-> "Robinson"]>>
    /\ vis_map_attr.time_start = <<9000>>

\* the exceptions that end a Plot run
Failures == {"ValueError", "IndexError", "LookupFailure", "TypeError"}

\* C12: a step opens a plot window only as a Plot run whose time texts parse,
\* whose list is not empty, whose window passes the bounds check and whose
\* every pair resolves.  A Plot run over a time text that does not parse, an
\* empty list, a satellite without propagation output or a tag that is not in
\* PlotMapVars ends in an exception; such a run opens no plot window, draws
\* nothing, logs nothing and leaves the lists, the entries, the sub-form and
\* the variable-selection windows as they were.
C12_NoPartialPlot ==
    [][/\ fig_wins' # fig_wins
             => /\ fig_wins' = fig_wins + 1
                /\ plot'.outcome = "rendered"
                /\ AllNumbers(vis_map_time_from_entry')
                /\ AllNumbers(vis_map_time_to_entry')
                /\ Len(vis_map_attr'.sat_id) > 0
                /\ plot'.idx.indexed /\ ~WindowOutside(plot'.idx)
                /\ AllResolve(vis_map_attr')
       /\ plot'.outcome # "none"
             => LET parsed == /\ AllNumbers(vis_map_time_from_entry')
                              /\ AllNumbers(vis_map_time_to_entry')
                    sats == {vis_map_attr'.sat_id[k] :
                                k \in 1..Len(vis_map_attr'.sat_id)}
                    tags == {vis_map_attr'.var[k] :
                                k \in 1..Len(vis_map_attr'.var)}
                    passed == plot'.idx.indexed /\ ~WindowOutside(plot'.idx)
                IN  /\ ~parsed => plot'.outcome = "ValueError"
                    /\ (parsed /\ sats = {}) => plot'.outcome = "IndexError"
                    /\ (parsed /\ sats # {} /\ ~AllResolve(vis_map_attr'))
                          => plot'.outcome \in Failures \cup {"aborted"}
                    /\ (parsed /\ sats # {} /\ ~(sats \subseteq RegisteredSats)
                           /\ tags \subseteq PlotMapVars)
                          => plot'.outcome \in {"LookupFailure", "aborted"}
                    /\ (parsed /\ sats # {} /\ sats \subseteq RegisteredSats
                           /\ ~(tags \subseteq PlotMapVars))
                          => plot'.outcome \in {"TypeError", "aborted"}
                    /\ plot'.outcome = "aborted" => ~passed
                    /\ plot'.outcome \in Failures
                          => /\ ~plot'.opened
                             /\ ~plot'.logged
                             /\ plot'.fig = NoFig
                             /\ fig_wins' = fig_wins
                             /\ vis_map_attr'.sat_id = vis_map_attr.sat_id
                             /\ vis_map_attr'.var = vis_map_attr.var
                             /\ UNCHANGED <<timeVars, projVars, dialogVars>>]_vars

\* the first pair resolved, the second names a satellite without propagation
\* output: the run ended in an exception with no plot window
C12_Witness ==
    /\ plot.outcome = "LookupFailure"
    /\ vis_map_attr.sat_id = <<"Sat1", "Sat2">>
    /\ vis_map_attr.var = <<ALT, ALT>>
    /\ select_var_wins = 0
    /\ plot.idx.indexed /\ ~WindowOutside(plot.idx)
    /\ ~plot.opened
    /\ fig_wins = 0

=============================================================================
